---- MODULE Spec2Model ----
(***************************************************************************)
(* Wallet credit scoring (src/Model.py): the transaction cache of          *)
(* DataCollector, the position estimator, FeatureEngineer.extract_features,*)
(* RiskScorer.normalize / calculate_score and the per-wallet loop of main. *)
(*                                                                         *)
(* Numbers are exact rationals <<n, d>> with d > 0 in lowest terms; the    *)
(* code computes in binary floating point, whose int(raw_score * 1000) can *)
(* be one less where the exact product is a whole number (not the case for *)
(* any score a property below names).  Text is a sequence of one-          *)
(* character strings, so that len(), slicing and lower() are computed.     *)
(* A JSON / Python value that may be None is <<>> (None) or <<v>>.         *)
(***************************************************************************)
EXTENDS Integers, Sequences, FiniteSets

VARIABLES
    wallets,       \* main: the wallet_id column of the input file
    idx,           \* main: position of the for loop (1-based)
    pc,            \* which statement of the loop body (or of a unit run) is next
    cache,         \* DataCollector.cache[address]['transactions']: <<>> (no key) or <<list>>
    transactions,  \* main: local `transactions`
    positions,     \* main: local `positions`
    features,      \* main: local `features`
    results,       \* main: local `results`
    nreq,          \* history: address -> number of Etherscan requests issued
    lastRet,       \* history: address -> <<>> or <<last list get_transactions returned>>
    outcome,       \* history: per wallet, how main's own retrieval ended and its list
    arg,           \* unit runs: the arguments of the function under check
    ret            \* unit runs: what it returned

vars == <<wallets, idx, pc, cache, transactions, positions, features, results,
          nreq, lastRet, outcome, arg, ret>>

(***************************************************************************)
(* Bounds of the model.                                                    *)
(***************************************************************************)
MaxWallets == 2
MaxTxs == 2
MaxCount == 2
MaxNorm == 3

(***************************************************************************)
(* Exact rational arithmetic.                                              *)
(***************************************************************************)
\* The element of a one-element set.  { e(p) : p \in {<<a, b>>} } computes a and b
\* once, as a Python call computes its arguments once.
The(S) == CHOOSE r \in S : TRUE

Abs(x) == IF x < 0 THEN -x ELSE x

RECURSIVE GCD(_, _)
GCD(a, b) == IF b = 0 THEN a ELSE GCD(b, a % b)

\* n / d in lowest terms, d > 0.
Rat(n, d) ==
    The({ <<p[1] \div GCD(Abs(p[1]), p[2]), p[2] \div GCD(Abs(p[1]), p[2])>> :
          p \in {<<n, d>>} })

Int2Rat(n) == <<n, 1>>
RAdd(a, b) ==
    The({ Rat(p[1][1] * p[2][2] + p[2][1] * p[1][2], p[1][2] * p[2][2]) : p \in {<<a, b>>} })
RSub(a, b) ==
    The({ Rat(p[1][1] * p[2][2] - p[2][1] * p[1][2], p[1][2] * p[2][2]) : p \in {<<a, b>>} })
RMul(a, b) ==
    The({ Rat(p[1][1] * p[2][1], p[1][2] * p[2][2]) : p \in {<<a, b>>} })
RDiv(a, b) ==
    The({ IF p[2][1] > 0 THEN Rat(p[1][1] * p[2][2], p[1][2] * p[2][1])
          ELSE Rat(-(p[1][1] * p[2][2]), -(p[1][2] * p[2][1])) : p \in {<<a, b>>} })
RLt(a, b) == The({ p[1][1] * p[2][2] < p[2][1] * p[1][2] : p \in {<<a, b>>} })
RLe(a, b) == The({ p[1][1] * p[2][2] <= p[2][1] * p[1][2] : p \in {<<a, b>>} })
\* Python's min(a, b) and max(a, b): the first argument wins a tie.
PyMin(a, b) == The({ IF RLt(p[2], p[1]) THEN p[2] ELSE p[1] : p \in {<<a, b>>} })
PyMax(a, b) == The({ IF RLt(p[1], p[2]) THEN p[2] ELSE p[1] : p \in {<<a, b>>} })
\* Python's int(x): truncation toward zero.
PyInt(a) ==
    The({ IF x[1] >= 0 THEN x[1] \div x[2] ELSE -((-x[1]) \div x[2]) : x \in {a} })

Zero == Int2Rat(0)
One == Int2Rat(1)

(***************************************************************************)
(* Config                                                                  *)
(***************************************************************************)
LIQUIDATION_THRESHOLD == Rat(11, 10)
SAFE_RATIO == Rat(20, 10)
MAX_BORROWED_VALUE == 1000000
MAX_LIQUIDATIONS == 10

(***************************************************************************)
(* Python values: None is <<>>, a value v is <<v>>; a dict is a function   *)
(* whose DOMAIN is its key set.                                            *)
(***************************************************************************)
None == <<>>
Some(v) == <<v>>
IsNone(x) == x = <<>>
DictGet(d, k, default) == IF k \in DOMAIN d THEN d[k] ELSE default

(***************************************************************************)
(* RiskScorer                                                              *)
(***************************************************************************)
\* A variant of the weights with the first two exchanged.
WeightsExchanged ==
    [current_collateral_ratio |-> Rat(30, 100),
     borrowed_value |-> Rat(40, 100),
     liquidation_count |-> Rat(15, 100),
     borrow_frequency |-> Rat(10, 100),
     repay_ratio |-> Rat(5, 100)]

WEIGHTS ==
    [current_collateral_ratio |-> Rat(40, 100),
     borrowed_value |-> Rat(30, 100),
     liquidation_count |-> Rat(15, 100),
     borrow_frequency |-> Rat(10, 100),
     repay_ratio |-> Rat(5, 100)]

\* A variant of normalize whose result is not clamped to [0, 1].
NormalizeUnclamped(value, min_val, max_val, inverse) ==
    IF RLe(max_val, min_val) THEN Zero
    ELSE LET scaled == RDiv(RSub(value, min_val), RSub(max_val, min_val))
         IN IF inverse THEN RSub(One, scaled) ELSE scaled

Normalize(value, min_val, max_val, inverse) ==
    IF RLe(max_val, min_val) THEN Zero
    ELSE LET scaled == RDiv(RSub(value, min_val), RSub(max_val, min_val))
         IN PyMax(Zero, PyMin(One, IF inverse THEN RSub(One, scaled) ELSE scaled))

\* The feature values calculate_score reads, each with the default of its get().
\* A value is Some(rational), or None for anything that is not a number.
FeatureReads(f) ==
    [transaction_count |-> DictGet(f, "transaction_count", Some(Zero)),
     borrow_count |-> DictGet(f, "borrow_count", Some(Zero)),
     current_collateral_ratio |-> DictGet(f, "current_collateral_ratio", Some(Rat(13, 10))),
     borrowed_value |-> DictGet(f, "borrowed_value", Some(Zero)),
     liquidation_count |-> DictGet(f, "liquidation_count", Some(Zero)),
     repay_count |-> DictGet(f, "repay_count", Some(Zero))]

\* An operand that is not a number makes max / min / - / "/" raise TypeError.
ScoreRaises(f) == \E k \in DOMAIN FeatureReads(f) : IsNone(FeatureReads(f)[k])

BorrowFrequency(f) ==
    LET r == FeatureReads(f)
        tx_count == PyMax(r.transaction_count[1], One)
    IN RDiv(r.borrow_count[1], tx_count)

\* A variant of the repay ratio without the complement: the repaid share itself.
RepayShare(f) ==
    LET r == FeatureReads(f)
    IN RDiv(r.repay_count[1], PyMax(One, r.borrow_count[1]))

RepayRatio(f) ==
    LET r == FeatureReads(f)
    IN RSub(One, RDiv(r.repay_count[1], PyMax(One, r.borrow_count[1])))

Normalized(f) ==
    LET r == FeatureReads(f)
    IN [current_collateral_ratio |->
            Normalize(r.current_collateral_ratio[1], LIQUIDATION_THRESHOLD, SAFE_RATIO, TRUE),
        borrowed_value |->
            Normalize(PyMin(r.borrowed_value[1], Int2Rat(MAX_BORROWED_VALUE)),
                      Zero, Int2Rat(MAX_BORROWED_VALUE), FALSE),
        liquidation_count |->
            Normalize(PyMin(r.liquidation_count[1], Int2Rat(MAX_LIQUIDATIONS)),
                      Zero, Int2Rat(MAX_LIQUIDATIONS), FALSE),
        borrow_frequency |-> BorrowFrequency(f),
        repay_ratio |-> RepayRatio(f)]

RawScore(f) ==
    The({ LET t(k) == RMul(n[k], WEIGHTS[k])
          IN RAdd(RAdd(RAdd(RAdd(t("current_collateral_ratio"), t("borrowed_value")),
                            t("liquidation_count")), t("borrow_frequency")),
                  t("repay_ratio")) : n \in {Normalized(f)} })

\* A variant of calculate_score without the final clamp to [0, 1000].
CalculateScoreNoClamp(f) ==
    IF ScoreRaises(f) THEN 0
    ELSE PyInt(RMul(RawScore(f), Int2Rat(1000)))

CalculateScore(f) ==
    IF ScoreRaises(f) THEN 0
    ELSE The({ IF s < 0 THEN 0 ELSE IF s > 1000 THEN 1000 ELSE s :
               s \in {PyInt(RMul(RawScore(f), Int2Rat(1000)))} })

(***************************************************************************)
(* Text: a str is a sequence of one-character strings.                     *)
(***************************************************************************)
LowerChar(ch) ==
    CASE ch = "A" -> "a" [] ch = "B" -> "b" [] ch = "C" -> "c"
      [] ch = "D" -> "d" [] ch = "E" -> "e" [] ch = "F" -> "f"
      [] ch = "X" -> "x" [] OTHER -> ch

Lower(s) == [i \in 1..Len(s) |-> LowerChar(s[i])]

\* s[:n]
Prefix(s, n) == SubSeq(s, 1, IF Len(s) < n THEN Len(s) ELSE n)

COMPOUND_LITERAL ==
    <<"0", "x", "3", "d", "9", "8", "1", "9", "2", "1", "0", "A", "3", "1",
      "b", "4", "9", "6", "1", "b", "3", "0", "E", "F", "5", "4", "b", "E",
      "2", "a", "e", "D", "7", "9", "B", "9", "c", "9", "C", "d", "3", "B">>
COMPOUND_V2_ADDRESS == Lower(COMPOUND_LITERAL)

BORROW_SELECTOR == <<"0", "x", "c", "5", "e", "b", "e", "a", "e", "c">>
REPAY_SELECTOR == <<"0", "x", "0", "e", "7", "5", "2", "7", "0", "2">>
LIQUIDATE_SELECTOR == <<"0", "x", "e", "f", "e", "f", "3", "9", "a", "1">>

(***************************************************************************)
(* DataCollector                                                           *)
(***************************************************************************)
WalletA == "0x00000000000000000000000000000000000000a1"
WalletB == "0x00000000000000000000000000000000000000b2"
NotAWallet == "not-an-address"
WalletIds == {WalletA, WalletB, NotAWallet}

\* Web3.is_address: the two 40-digit hex strings are addresses, the third is not.
IsAddress(w) == w \in {WalletA, WalletB}

\* What one requests.get(...).json() can give: an exception (transport error,
\* timeout, a body that is no JSON, a body without 'status'), or a JSON object
\* with its 'status' and 'result'.
ApiError == [kind |-> "error", status |-> "", result |-> <<>>]
ApiStatus(status, result) == [kind |-> "json", status |-> status, result |-> result]

\* tx.get('to', '').lower() raises AttributeError when 'to' is null.
FilterRaises(result) ==
    \E i \in 1..Len(result) : IsNone(DictGet(result[i], "to", Some(<<>>)))

IsCompoundTx(tx) == Lower(DictGet(tx, "to", Some(<<>>))[1]) = COMPOUND_V2_ADDRESS

\* A variant of get_transactions that never reads the cache.
GetTransactionsNoCacheRead(c, wallet_address, resp) ==
    IF ~IsAddress(wallet_address)
    THEN [ret |-> <<>>, cache |-> c, req |-> 0, how |-> "invalid"]
    ELSE IF resp.kind = "error"
    THEN [ret |-> <<>>, cache |-> c, req |-> 1, how |-> "error"]
    ELSE IF resp.status # "1"
    THEN [ret |-> <<>>, cache |-> c, req |-> 1, how |-> "status"]
    ELSE IF FilterRaises(resp.result)
    THEN [ret |-> <<>>, cache |-> c, req |-> 1, how |-> "error"]
    ELSE LET txs == SelectSeq(resp.result, IsCompoundTx)
         IN [ret |-> txs, cache |-> [c EXCEPT ![wallet_address] = Some(txs)],
             req |-> 1, how |-> "fetched"]

\* get_transactions(wallet_address) on cache c, where resp is the answer Etherscan
\* gives if it is asked: the list returned, the cache afterwards, the number of
\* requests issued, and which return statement ended the call.
GetTransactions(c, wallet_address, resp) ==
    IF ~IsAddress(wallet_address)
    THEN [ret |-> <<>>, cache |-> c, req |-> 0, how |-> "invalid"]
    ELSE IF ~IsNone(c[wallet_address])
    THEN [ret |-> c[wallet_address][1], cache |-> c, req |-> 0, how |-> "cached"]
    ELSE IF resp.kind = "error"
    THEN [ret |-> <<>>, cache |-> c, req |-> 1, how |-> "error"]
    ELSE IF resp.status # "1"
    THEN [ret |-> <<>>, cache |-> c, req |-> 1, how |-> "status"]
    ELSE IF FilterRaises(resp.result)
    THEN [ret |-> <<>>, cache |-> c, req |-> 1, how |-> "error"]
    ELSE LET txs == SelectSeq(resp.result, IsCompoundTx)
         IN [ret |-> txs, cache |-> [c EXCEPT ![wallet_address] = Some(txs)],
             req |-> 1, how |-> "fetched"]

\* The except branch of get_simplified_positions.
FallbackPositions ==
    [collateral_ratio |-> Some(Rat(13, 10)),
     borrowed_value |-> Some(Int2Rat(1000)),
     collateral_value |-> Some(Int2Rat(2000))]

\* The try branch of get_simplified_positions, from tx_count = len(txs).
EstimatePositions(tx_count) ==
    LET base_ratio == Rat(25, 10)
        risk_factor == PyMin(RMul(Int2Rat(tx_count), Rat(1, 10)), Rat(15, 10))
    IN [collateral_ratio |->
            Some(PyMax(RAdd(LIQUIDATION_THRESHOLD, Rat(2, 10)), RSub(base_ratio, risk_factor))),
        borrowed_value |-> Some(Int2Rat(5000 + tx_count * 2000)),
        collateral_value |-> Some(Int2Rat(10000 + tx_count * 3000))]

(***************************************************************************)
(* FeatureEngineer                                                         *)
(***************************************************************************)
\* len(tx_input) raises TypeError when 'input' is null.
TxRaises(tx) == IsNone(DictGet(tx, "input", Some(<<>>)))

Increment(f, k) == [f EXCEPT ![k] = Some(RAdd(@[1], One))]

\* A variant of the loop body that compares the selector in lower case.
CountTxAnyCase(f, tx) ==
    LET tx_input == DictGet(tx, "input", Some(<<>>))[1]
    IN IF Len(tx_input) >= 10
       THEN LET method_id == Lower(Prefix(tx_input, 10))
            IN IF method_id = BORROW_SELECTOR THEN Increment(f, "borrow_count")
               ELSE IF method_id = REPAY_SELECTOR THEN Increment(f, "repay_count")
               ELSE IF method_id = LIQUIDATE_SELECTOR THEN Increment(f, "liquidation_count")
               ELSE f
       ELSE f

\* The body of `for tx in transactions`.
CountTx(f, tx) ==
    LET tx_input == DictGet(tx, "input", Some(<<>>))[1]
    IN IF Len(tx_input) >= 10
       THEN LET method_id == Prefix(tx_input, 10)
            IN IF method_id = BORROW_SELECTOR THEN Increment(f, "borrow_count")
               ELSE IF method_id = REPAY_SELECTOR THEN Increment(f, "repay_count")
               ELSE IF method_id = LIQUIDATE_SELECTOR THEN Increment(f, "liquidation_count")
               ELSE f
       ELSE f

\* The loop: None when an iteration raises, Some(features) otherwise.
RECURSIVE CountLoop(_, _)
CountLoop(f, txs) ==
    The({ IF p[2] = <<>> THEN Some(p[1])
          ELSE IF TxRaises(Head(p[2])) THEN None
          ELSE CountLoop(CountTx(p[1], Head(p[2])), Tail(p[2])) : p \in {<<f, txs>>} })

\* extract_features: None when it raises, Some(features) when it returns.
ExtractFeatures(wallet_address, txs, pos) ==
    CountLoop([wallet_id |-> wallet_address,
               transaction_count |-> Some(Int2Rat(Len(txs))),
               current_collateral_ratio |-> DictGet(pos, "collateral_ratio", Some(Zero)),
               borrowed_value |-> DictGet(pos, "borrowed_value", Some(Zero)),
               borrow_count |-> Some(Zero),
               repay_count |-> Some(Zero),
               liquidation_count |-> Some(Zero)],
              txs)

(***************************************************************************)
(* main: the per-wallet loop.                                              *)
(***************************************************************************)
\* A variant of the except branch's row with score 0 in place of None.
SentinelRowScoreZero(wallet) ==
    [wallet_id |-> wallet, score |-> Some(0), transaction_count |-> Zero,
     borrow_count |-> Zero, liquidation_count |-> Zero,
     collateral_ratio |-> Zero, borrowed_value |-> Zero]

\* The row of the except branch.
SentinelRow(wallet) ==
    [wallet_id |-> wallet, score |-> None, transaction_count |-> Zero,
     borrow_count |-> Zero, liquidation_count |-> Zero,
     collateral_ratio |-> Zero, borrowed_value |-> Zero]

\* The row of the try branch.
NormalRow(wallet, score, txs, f, pos) ==
    [wallet_id |-> wallet, score |-> Some(score),
     transaction_count |-> Int2Rat(Len(txs)),
     borrow_count |-> f.borrow_count[1],
     liquidation_count |-> f.liquidation_count[1],
     collateral_ratio |-> pos.collateral_ratio[1],
     borrowed_value |-> pos.borrowed_value[1]]

\* The transactions Etherscan lists for an address in this model.
ChecksumCompound == COMPOUND_LITERAL
OtherContract ==
    <<"0", "x", "3", "9", "a", "a", "3", "9", "c", "0", "2", "1", "d", "f",
      "b", "a", "e", "8", "f", "a", "c", "5", "4", "5", "9", "3", "6", "6",
      "9", "3", "a", "c", "9", "1", "7", "d", "5", "e", "7", "5", "6", "3">>
TxBorrow == [to |-> Some(ChecksumCompound), input |-> Some(BORROW_SELECTOR \o <<"0", "1">>)]
TxLiquidate == [to |-> Some(COMPOUND_V2_ADDRESS), input |-> Some(LIQUIDATE_SELECTOR)]
TxElsewhere == [to |-> Some(OtherContract), input |-> Some(BORROW_SELECTOR)]
TxNullInput == [to |-> Some(COMPOUND_V2_ADDRESS), input |-> None]
TxNullTo == [to |-> None, input |-> Some(REPAY_SELECTOR)]

SeqsUpTo(S, n) == UNION { [1..k -> S] : k \in 0..n }

ApiResults ==
    { <<>>, <<TxBorrow>>, <<TxBorrow, TxElsewhere, TxLiquidate>>, <<TxNullInput>>,
      <<TxNullTo>> }

ApiResponses ==
    {ApiError, ApiStatus("0", <<>>)} \cup { ApiStatus("1", r) : r \in ApiResults }

Wallet == wallets[idx]

UnitIdle ==
    /\ arg = None
    /\ ret = None

MainIdle ==
    /\ wallets = <<>>
    /\ idx = 1
    /\ cache = [w \in WalletIds |-> None]
    /\ transactions = None
    /\ positions = None
    /\ features = None
    /\ results = <<>>
    /\ nreq = [w \in WalletIds |-> 0]
    /\ lastRet = [w \in WalletIds |-> None]
    /\ outcome = <<>>

mainVars == <<wallets, idx, cache, transactions, positions, features, results,
              nreq, lastRet, outcome>>

InitMain ==
    /\ wallets \in SeqsUpTo(WalletIds, MaxWallets)
    /\ idx = 1
    /\ pc = "fetch"
    /\ cache = [w \in WalletIds |-> None]
    /\ transactions = None
    /\ positions = None
    /\ features = None
    /\ results = <<>>
    /\ nreq = [w \in WalletIds |-> 0]
    /\ lastRet = [w \in WalletIds |-> None]
    /\ outcome = <<>>
    /\ UnitIdle

\* transactions = collector.get_transactions(wallet)
Fetch ==
    /\ pc = "fetch"
    /\ idx <= Len(wallets)
    /\ \E resp \in ApiResponses :
         LET g == GetTransactions(cache, Wallet, resp)
         IN /\ transactions' = Some(g.ret)
            /\ cache' = g.cache
            /\ nreq' = [nreq EXCEPT ![Wallet] = @ + g.req]
            /\ lastRet' = [lastRet EXCEPT ![Wallet] = Some(g.ret)]
            /\ outcome' = Append(outcome, [how |-> g.how, txs |-> g.ret])
    /\ pc' = "estimate"
    /\ UNCHANGED <<wallets, idx, positions, features, results, arg, ret>>

\* positions = collector.get_simplified_positions(wallet), which calls
\* get_transactions again.
Estimate ==
    /\ pc = "estimate"
    /\ \E resp \in ApiResponses :
         LET g == GetTransactions(cache, Wallet, resp)
         IN /\ positions' = Some(EstimatePositions(Len(g.ret)))
            /\ cache' = g.cache
            /\ nreq' = [nreq EXCEPT ![Wallet] = @ + g.req]
            /\ lastRet' = [lastRet EXCEPT ![Wallet] = Some(g.ret)]
    /\ pc' = "extract"
    /\ UNCHANGED <<wallets, idx, transactions, features, results, outcome, arg, ret>>

\* A variant of the loop body without the except branch's append: the wallet whose
\* extraction raises is skipped.
ExtractSkippingFailure ==
    /\ pc = "extract"
    /\ LET e == ExtractFeatures(Wallet, transactions[1], positions[1])
       IN IF IsNone(e)
          THEN /\ idx' = idx + 1
               /\ pc' = "fetch"
               /\ UNCHANGED <<features, results>>
          ELSE /\ features' = e
               /\ pc' = "score"
               /\ UNCHANGED <<results, idx>>
    /\ UNCHANGED <<wallets, cache, transactions, positions, nreq, lastRet, outcome,
                   arg, ret>>

\* features = engineer.extract_features(wallet, transactions, positions); when it
\* raises, the except branch appends the sentinel row and the loop goes on.
Extract ==
    /\ pc = "extract"
    /\ LET e == ExtractFeatures(Wallet, transactions[1], positions[1])
       IN IF IsNone(e)
          THEN /\ results' = Append(results, SentinelRow(Wallet))
               /\ idx' = idx + 1
               /\ pc' = "fetch"
               /\ UNCHANGED features
          ELSE /\ features' = e
               /\ pc' = "score"
               /\ UNCHANGED <<results, idx>>
    /\ UNCHANGED <<wallets, cache, transactions, positions, nreq, lastRet, outcome,
                   arg, ret>>

\* score = scorer.calculate_score(features); results.append({...})
Score ==
    /\ pc = "score"
    /\ results' = Append(results,
                         NormalRow(Wallet, CalculateScore(features[1]), transactions[1],
                                   features[1], positions[1]))
    /\ idx' = idx + 1
    /\ pc' = "fetch"
    /\ UNCHANGED <<wallets, cache, transactions, positions, features, nreq, lastRet,
                   outcome, arg, ret>>

\* The loop is over: the two files are written and main returns True.
Finish ==
    /\ pc = "fetch"
    /\ idx > Len(wallets)
    /\ pc' = "done"
    /\ UNCHANGED <<wallets, idx, cache, transactions, positions, features, results,
                   nreq, lastRet, outcome, arg, ret>>

Next == Fetch \/ Estimate \/ Extract \/ Score \/ Finish

Spec == InitMain /\ [][Next]_vars

\* main is one sequential thread and every request has a timeout: a step that can
\* be taken is taken.
FairSpec == Spec /\ WF_vars(Next)

(***************************************************************************)
(* RiskScorer.normalize on its own: two values under the same bounds.      *)
(***************************************************************************)
NormValues == { Rat(k, 2) : k \in -2..(2 * MaxNorm) }
NormBounds == { Int2Rat(k) : k \in 0..MaxNorm }

InitNormalize ==
    /\ pc = "normalize"
    /\ arg \in [value : NormValues, other : NormValues,
                min_val : NormBounds, max_val : NormBounds, inverse : BOOLEAN]
    /\ ret = None
    /\ MainIdle

CallNormalize ==
    /\ pc = "normalize"
    /\ ret' = Some([value |-> Normalize(arg.value, arg.min_val, arg.max_val, arg.inverse),
                    other |-> Normalize(arg.other, arg.min_val, arg.max_val, arg.inverse)])
    /\ pc' = "normalized"
    /\ UNCHANGED <<arg, mainVars>>

SpecNormalize == InitNormalize /\ [][CallNormalize]_vars

(***************************************************************************)
(* RiskScorer.calculate_score on its own: any feature dict, with keys that *)
(* are missing and values that are not numbers.                            *)
(***************************************************************************)
\* Marks a key the dict does not have (no rational has denominator 0).
Absent == Some(<<0, 0>>)

CountChoices == {Absent, None} \cup { Some(Int2Rat(n)) : n \in 0..MaxCount }
LiquidationChoices == CountChoices \cup {Some(Int2Rat(MAX_LIQUIDATIONS + 1))}
RatioChoices == {Absent, None, Some(Rat(11, 10)), Some(Rat(13, 10)), Some(Rat(25, 10))}
BorrowedChoices ==
    {Absent, None, Some(Zero), Some(Int2Rat(5000)), Some(Int2Rat(MAX_BORROWED_VALUE + 1))}

DictOf(choice) == [k \in {k \in DOMAIN choice : choice[k] # Absent} |-> choice[k]]

FeatureDicts ==
    { DictOf(c) : c \in [transaction_count : CountChoices,
                         borrow_count : CountChoices,
                         repay_count : CountChoices,
                         liquidation_count : LiquidationChoices,
                         current_collateral_ratio : RatioChoices,
                         borrowed_value : BorrowedChoices] }

InitScore ==
    /\ pc = "score_call"
    /\ arg \in FeatureDicts
    /\ ret = None
    /\ MainIdle

CallScore ==
    /\ pc = "score_call"
    /\ ret' = Some(CalculateScore(arg))
    /\ pc' = "scored"
    /\ UNCHANGED <<arg, mainVars>>

SpecScore == InitScore /\ [][CallScore]_vars

(***************************************************************************)
(* extract_features followed by calculate_score, on transaction records    *)
(* of the data model: 'input' is a string, or the key is missing.          *)
(***************************************************************************)
UpperBorrow == <<"0", "x", "C", "5", "E", "B", "E", "A", "E", "C">>
InputTexts ==
    { BORROW_SELECTOR, BORROW_SELECTOR \o <<"0", "1">>, REPAY_SELECTOR, LIQUIDATE_SELECTOR,
      UpperBorrow, Prefix(BORROW_SELECTOR, 9), <<"0", "x">> }
ExtractTxs ==
    { [to |-> Some(COMPOUND_V2_ADDRESS), input |-> Some(t)] : t \in InputTexts }
        \cup { [to |-> Some(COMPOUND_V2_ADDRESS)] }

\* A position without collateral_ratio, and the empty position.
BorrowedOnly == [borrowed_value |-> Some(Int2Rat(1000))]
NoPosition == [k \in {} |-> None]
PositionDicts ==
    {NoPosition, BorrowedOnly, FallbackPositions} \cup { EstimatePositions(n) : n \in 0..MaxTxs }

InitFeatures ==
    /\ pc = "extract_call"
    /\ arg \in [transactions : SeqsUpTo(ExtractTxs, MaxTxs), positions : PositionDicts]
    /\ ret = None
    /\ MainIdle

CallExtract ==
    /\ pc = "extract_call"
    /\ features' = ExtractFeatures(WalletA, arg.transactions, arg.positions)
    /\ pc' = "extracted"
    /\ UNCHANGED <<arg, ret, wallets, idx, cache, transactions, positions, results,
                   nreq, lastRet, outcome>>

CallScoreExtracted ==
    /\ pc = "extracted"
    /\ ~IsNone(features)
    /\ ret' = Some(CalculateScore(features[1]))
    /\ pc' = "extracted_scored"
    /\ UNCHANGED <<arg, mainVars>>

NextFeatures == CallExtract \/ CallScoreExtracted

SpecFeatures == InitFeatures /\ [][NextFeatures]_vars

(***************************************************************************)
(* Properties.                                                             *)
(***************************************************************************)
In01(x) == RLe(Zero, x) /\ RLe(x, One)
IsNumber(v) == ~IsNone(v)

\* C1: calculate_score returns an integer in [0, 1000] for every feature dict,
\* 0 when a value it reads is not a number, and stays in range when
\* repay_count > borrow_count or borrow_count > transaction_count.
C1_ScoreInRange ==
    pc = "scored" =>
        /\ ret[1] \in 0..1000
        /\ (\E k \in DOMAIN arg : IsNone(arg[k])) => ret[1] = 0

\* A scored dict of numbers with more borrows than transactions and a weighted
\* sum above 1: the clamp has acted.
C1_Witness ==
    /\ pc = "scored"
    /\ \A k \in DOMAIN arg : IsNumber(arg[k])
    /\ {"transaction_count", "borrow_count", "repay_count"} \subseteq DOMAIN arg
    /\ RLt(arg.transaction_count[1], arg.borrow_count[1])
    /\ RLt(One, RawScore(arg))
    /\ ret[1] = 1000

\* C4: normalize returns a value in [0, 1]; for min < max it is non-decreasing in
\* value when not inverse and non-increasing when inverse; for max <= min it is 0.
C4_NormalizeBoundedMonotone ==
    pc = "normalized" =>
        LET r == ret[1] IN
        /\ In01(r.value) /\ In01(r.other)
        /\ RLe(arg.max_val, arg.min_val) => (r.value = Zero /\ r.other = Zero)
        /\ (RLt(arg.min_val, arg.max_val) /\ RLe(arg.value, arg.other)) =>
               IF arg.inverse THEN RLe(r.other, r.value) ELSE RLe(r.value, r.other)

\* An inverse normalisation of two values inside the bounds, strictly decreasing.
C4_Witness ==
    /\ pc = "normalized"
    /\ arg.inverse
    /\ RLt(arg.min_val, arg.value) /\ RLt(arg.value, arg.other) /\ RLt(arg.other, arg.max_val)
    /\ RLt(ret[1].other, ret[1].value)

ExtractKeys ==
    {"wallet_id", "transaction_count", "current_collateral_ratio", "borrowed_value",
     "borrow_count", "repay_count", "liquidation_count"}

\* The number of transactions whose input starts with exactly this selector.
Matching(txs, selector) ==
    Cardinality({ i \in 1..Len(txs) :
                    /\ "input" \in DOMAIN txs[i]
                    /\ Len(txs[i].input[1]) >= 10
                    /\ SubSeq(txs[i].input[1], 1, 10) = selector })

ScenarioAScore ==
    PyInt(RMul(Int2Rat(1000),
               RAdd(RAdd(RMul(Rat(40, 100),
                              Normalize(Rat(13, 10), Rat(11, 10), Rat(20, 10), TRUE)),
                         RMul(Rat(30, 100),
                              Normalize(Int2Rat(1000), Zero, Int2Rat(1000000), FALSE))),
                    Rat(5, 100))))

ZeroTxScored == pc = "extracted_scored" /\ arg.transactions = <<>>

NumbersOnly == pc = "scored" /\ ~ScoreRaises(arg)

\* C9 as stated: borrow_frequency and repay_ratio lie in [0, 1] for every
\* feature dict with non-negative counts.
C9_RatiosIn01 ==
    NumbersOnly => (In01(BorrowFrequency(arg)) /\ In01(RepayRatio(arg)))

\* C9 as amended: borrow_frequency >= 0 and repay_ratio <= 1 always;
\* borrow_frequency <= 1 when borrow_count <= max(transaction_count, 1);
\* repay_ratio >= 0 when repay_count <= max(borrow_count, 1).
C9_RatiosBounded ==
    NumbersOnly =>
        LET r == FeatureReads(arg) IN
        /\ RLe(Zero, BorrowFrequency(arg))
        /\ RLe(RepayRatio(arg), One)
        /\ RLe(r.borrow_count[1], PyMax(r.transaction_count[1], One)) =>
               RLe(BorrowFrequency(arg), One)
        /\ RLe(r.repay_count[1], PyMax(One, r.borrow_count[1])) =>
               RLe(Zero, RepayRatio(arg))

\* One borrow in two transactions, repaid once: both ratios strictly inside or on
\* the bounds.
C9_Witness ==
    /\ NumbersOnly
    /\ BorrowFrequency(arg) = Rat(1, 2)
    /\ RepayRatio(arg) = Zero
    /\ FeatureReads(arg).repay_count = Some(One)

Rows == 1..Len(results)
IsSentinel(row) == IsNone(row.score)

\* The rows written so far are those of the wallets processed so far, in order.
RowsFollowInput ==
    /\ idx \in 1..(Len(wallets) + 1)
    /\ Len(results) = idx - 1
    /\ \A j \in Rows : results[j].wallet_id = wallets[j]

\* C2: the loop terminates with exactly one row per input wallet, the i-th row
\* for the i-th wallet, whatever fails on the way.
C2_OneRowPerWallet ==
    /\ [](RowsFollowInput /\ (pc = "done" => Len(results) = Len(wallets)))
    /\ <>(pc = "done")

\* The batch is done: a first wallet whose extraction raised, then a scored one.
C2_Witness ==
    /\ pc = "done"
    /\ Len(results) >= 2
    /\ IsSentinel(results[1])
    /\ ~IsSentinel(results[2])

\* The list main fetched for the j-th wallet makes extract_features raise.
ExtractionRaised(j) ==
    \E i \in 1..Len(outcome[j].txs) : "input" \in DOMAIN outcome[j].txs[i]
                                        /\ outcome[j].txs[i].input = None

\* C3: a row has score None exactly when a pipeline step raised for its wallet
\* (get_transactions, get_simplified_positions and calculate_score catch their
\* own exceptions, so that step is extract_features); such a row has 0 in every
\* other column; every other row carries an integer score.
C3_NullScoreIffStepRaised ==
    \A j \in Rows :
        /\ IsSentinel(results[j]) <=> ExtractionRaised(j)
        /\ IsSentinel(results[j]) =>
               /\ results[j].transaction_count = Zero
               /\ results[j].borrow_count = Zero
               /\ results[j].liquidation_count = Zero
               /\ results[j].collateral_ratio = Zero
               /\ results[j].borrowed_value = Zero
        /\ ~IsSentinel(results[j]) => results[j].score[1] \in 0..1000

\* A sentinel row for a wallet whose list held a null input, after a normal row.
C3_Witness ==
    /\ Len(results) >= 2
    /\ ~IsSentinel(results[1])
    /\ IsSentinel(results[2])
    /\ ExtractionRaised(2)

\* C6 as stated: once a call for an address has returned, every later call for
\* it returns the same list and issues no request.
C6_EveryResultMemoized ==
    [][\A a \in WalletIds :
          ~IsNone(lastRet[a]) => (lastRet'[a] = lastRet[a] /\ nreq'[a] = nreq[a])]_vars

\* C6 as amended: once a call for an address has stored its list in the cache,
\* every later call for it returns that list and issues no request, and the
\* entry never changes; no request is ever issued for an invalid address.
C6_StoredResultMemoized ==
    /\ [](\A a \in WalletIds :
            /\ ~IsNone(cache[a]) => (lastRet[a] = cache[a] /\ nreq[a] >= 1)
            /\ ~IsAddress(a) => (nreq[a] = 0 /\ IsNone(cache[a])))
    /\ [][\A a \in WalletIds :
            ~IsNone(cache[a]) => (cache'[a] = cache[a] /\ nreq'[a] = nreq[a])]_vars

\* A wallet listed twice: its second retrieval is served from the cache, after
\* one request in all.
C6_Witness ==
    /\ Len(outcome) >= 2
    /\ wallets[1] = wallets[2]
    /\ outcome[1].how = "fetched"
    /\ outcome[2].how = "cached"
    /\ outcome[2].txs # <<>>
    /\ nreq[wallets[1]] = 1

\* The features and the score of a wallet without any activity.
ZeroActivityFeatures == ExtractFeatures(WalletA, <<>>, EstimatePositions(0))[1]

\* C7: when main's retrieval for a wallet fails, its row is a normal row with
\* zero counts and the score, collateral_ratio and borrowed_value of a wallet
\* with zero activity.
C7_FailedRetrievalIsZeroActivity ==
    \A j \in Rows :
        outcome[j].how \in {"invalid", "status", "error"} =>
            /\ ~IsSentinel(results[j])
            /\ results[j].transaction_count = Zero
            /\ results[j].borrow_count = Zero
            /\ results[j].liquidation_count = Zero
            /\ results[j].score = Some(CalculateScore(ZeroActivityFeatures))
            /\ results[j].collateral_ratio = EstimatePositions(0).collateral_ratio[1]
            /\ results[j].borrowed_value = EstimatePositions(0).borrowed_value[1]

\* C10: in every normal row the position columns are the estimator's formula at
\* the row's own transaction_count.
C10_PositionMatchesCount ==
    \A j \in Rows :
        ~IsSentinel(results[j]) =>
            LET n == PyInt(results[j].transaction_count) IN
            /\ results[j].collateral_ratio = EstimatePositions(n).collateral_ratio[1]
            /\ results[j].borrowed_value = Int2Rat(5000 + 2000 * n)

====
